---- MODULE Spec2Model ----
(***************************************************************************)
(* Relevantr (src/relevantr.py): a Tk GUI thread, one daemon worker thread *)
(* per "Process PDFs" and per "Ask Question", and the Tk callback queue    *)
(* (root.after) through which the workers report back to the GUI thread.   *)
(*                                                                         *)
(* Specifications:                                                         *)
(*   Spec         the GUI event handlers, the workers, the callback queue  *)
(*   SpecIngest   ingestion alone, with restarts of the application        *)
(*   SpecAsk      queries alone; SpecAskFair adds fair scheduling          *)
(*   SpecExport   queries and export_results                               *)
(*   SpecSettings the Advanced Settings dialog                             *)
(*   SpecKey      set_api_key with the two initialisers' calls recorded    *)
(*   SpecKeyUse   set_api_key followed by queries and an ingestion         *)
(*   SpecSplit    a load_and_process_pdfs call with settings applied       *)
(*   SpecLLM      QueryProcessor.initialize_llm, one iteration per step    *)
(*   SpecEmb      DocumentProcessor.initialize_embeddings, one test a step *)
(*   SpecPDF      DocumentProcessor.load_and_process_pdfs, one file a step *)
(*   SpecQP       QueryProcessor.process_query, one chunk per step         *)
(***************************************************************************)
EXTENDS Integers, Sequences, FiniteSets, TLC

VARIABLES
    \* the application objects
    api_key,            \* ScientificRAGApp.api_key; 0 is None
    embeddings,         \* DocumentProcessor.embeddings
    llm,                \* QueryProcessor.llm
    embedding_model,    \* Config.embedding_model
    generation_model,   \* Config.generation_model
    is_processing,      \* ScientificRAGApp.is_processing
    vector_db,          \* DocumentProcessor.vector_db; "None" or a handle "db"
    last_query_result,  \* ScientificRAGApp._last_query_result
    last_query,         \* ScientificRAGApp._last_query
    last_submitted,     \* `query` of the query_thread started last; "None" if none
    \* the widgets
    process_btn,        \* state of the Process PDFs button
    ask_btn,            \* state of the Ask Question button
    query_text_state,   \* state of the question box
    query_text,         \* content of the question box
    pdf_dir_var,        \* content of the PDF Directory entry
    api_status_var,     \* status bar, API indicator
    db_status_var,      \* toolbar, database indicator
    status_var,         \* status bar, message
    results_text,       \* content of the Answer box
    sources_tree,       \* items of the Sources tree, in display order
    messagebox,         \* the modal message box that is open, <<title, text>>; <<>> if none
    stderr,             \* the last traceback Tk printed for a failed callback
    \* the threads and the Tk event queue
    ingest_workers,     \* the process_thread threads that are alive
    query_workers,      \* the query_thread threads that are alive
    after_queue,        \* callbacks scheduled with root.after(0, ...)
    \* the environment
    persist_dir,        \* Config.persist_directory on disk
    chroma_has_len,     \* whether the installed Chroma class defines __len__
    export_file,        \* the report file export_results wrote last
    \* the configuration the settings dialog edits
    chunk_size,         \* Config.chunk_size
    chunk_overlap,      \* Config.chunk_overlap
    max_retrieved_docs, \* Config.max_retrieved_docs
    text_splitter,      \* DocumentProcessor.text_splitter, its two parameters
    \* locals of the calls that are stepped through one iteration at a time
    llm_call,           \* locals of an initialize_llm call
    emb_call,           \* locals of an initialize_embeddings call
    pdf_call,           \* locals of a load_and_process_pdfs call
    qp_call             \* locals of a QueryProcessor.process_query call

apiVars == <<api_key, embeddings, llm, embedding_model, generation_model>>

appVars == <<is_processing, vector_db, last_query_result, last_query, last_submitted>>

widgetVars == <<process_btn, ask_btn, query_text_state, query_text, pdf_dir_var,
                api_status_var, db_status_var, status_var, results_text, sources_tree, messagebox,
                stderr>>

threadVars == <<ingest_workers, query_workers, after_queue>>

envVars == <<persist_dir, chroma_has_len>>

settingsVars == <<chunk_size, chunk_overlap, max_retrieved_docs, text_splitter>>

callVars == <<llm_call, emb_call, pdf_call, qp_call>>

guiVars == <<appVars, widgetVars, threadVars, envVars, settingsVars, export_file>>

vars == <<apiVars, guiVars, settingsVars, export_file,
                   callVars>>

(***************************************************************************)
(* Bounds                                                                  *)
(***************************************************************************)
NumKeys == 2

MaxFiles == 3

MaxChunks == 1

MaxCount == 2

MaxInFlight == 2

MaxThreads == 1

MaxRetrieved == 3

Keys == 1..NumKeys

(***************************************************************************)
(* QueryProcessor.initialize_llm                                           *)
(***************************************************************************)
ModelPreference == <<"gemini-1.5-pro", "gemini-1.5-flash", "gemini-pro">>

\* What the test call test_llm.invoke("Hello") (or the constructor before it)
\* does for one model: it answers, or raises an exception whose text holds
\* "quota exceeded", "permission denied"/"not found", or neither.
LLMOutcomes == {"ok", "quota", "permission", "other"}

LLMOracles == [1..Len(ModelPreference) -> LLMOutcomes]

NoLLM == [model |-> "None", key |-> 0]

DefaultGenerationModel == "gemini-1.5-flash"

\* Config.max_retrieved_docs
MaxRetrievedDocs == 7

\* Config.chunk_size
DefaultChunkSize == 1000

\* Config.chunk_overlap
DefaultChunkOverlap == 200

\* RecursiveCharacterTextSplitter(chunk_size=..., chunk_overlap=...), by the
\* two parameters it was built with.
TextSplitter(size, overlap) == [chunk_size |-> size, chunk_overlap |-> overlap]

\* The log line of the except branch, chosen from the exception text.
LLMFailureLog(model, outcome) ==
    IF outcome = "quota" THEN <<"warning", model, "quota exceeded - trying next model">>
    ELSE IF outcome = "permission" THEN <<"info", model, "not available">>
    ELSE <<"warning", model, "failed">>

LLMStart(key, oracle, llm0, gm0) ==
    [pc |-> "loop", key |-> key, oracle |-> oracle, i |-> 1,
     attempted |-> <<>>, log |-> <<>>, ret |-> FALSE,
     llm |-> llm0, generation_model |-> gm0]

\* Mutant: the loop does not return at the first model that answers.
LLMIterate_NoReturn(c) ==
    LET model == ModelPreference[c.i]
        outcome == c.oracle[c.i]
    IN IF outcome = "ok"
       THEN [c EXCEPT !.i = c.i + 1, !.ret = TRUE,
                      !.llm = [model |-> model, key |-> c.key],
                      !.generation_model = model,
                      !.attempted = Append(c.attempted, model),
                      !.log = Append(c.log, <<"info", model, "SUCCESS">>)]
       ELSE [c EXCEPT !.i = c.i + 1,
                      !.attempted = Append(c.attempted, model),
                      !.log = Append(c.log, LLMFailureLog(model, outcome))]

\* Mutant: a quota error ends the search instead of moving to the next model.
LLMIterate_QuotaAborts(c) ==
    LET model == ModelPreference[c.i]
        outcome == c.oracle[c.i]
    IN IF outcome = "ok"
       THEN [c EXCEPT !.pc = "returned", !.ret = TRUE,
                      !.llm = [model |-> model, key |-> c.key],
                      !.generation_model = model,
                      !.attempted = Append(c.attempted, model),
                      !.log = Append(c.log, <<"info", model, "SUCCESS">>)]
       ELSE IF outcome = "quota"
       THEN [c EXCEPT !.pc = "returned", !.ret = FALSE,
                      !.attempted = Append(c.attempted, model),
                      !.log = Append(c.log, LLMFailureLog(model, outcome))]
       ELSE [c EXCEPT !.i = c.i + 1,
                      !.attempted = Append(c.attempted, model),
                      !.log = Append(c.log, LLMFailureLog(model, outcome))]

\* One iteration of `for model_name, description in model_preference`.
LLMIterate(c) ==
    LET model == ModelPreference[c.i]
        outcome == c.oracle[c.i]
    IN IF outcome = "ok"
       THEN [c EXCEPT !.pc = "returned", !.ret = TRUE,
                      !.llm = [model |-> model, key |-> c.key],
                      !.generation_model = model,
                      !.attempted = Append(c.attempted, model),
                      !.log = Append(c.log, <<"info", model, "SUCCESS">>)]
       ELSE [c EXCEPT !.i = c.i + 1,
                      !.attempted = Append(c.attempted, model),
                      !.log = Append(c.log, LLMFailureLog(model, outcome))]

\* The loop has run off the end of the list: log the error, return False.
LLMExhausted(c) ==
    [c EXCEPT !.pc = "returned", !.ret = FALSE,
              !.log = Append(c.log, <<"error", "", "No working models found">>)]

LLMStepOnce(c) ==
    IF c.i > Len(ModelPreference) THEN LLMExhausted(c) ELSE LLMIterate(c)

RECURSIVE LLMRun(_)
LLMRun(c) == IF c.pc = "returned" THEN c ELSE LLMRun(LLMStepOnce(c))

\* The whole call, as set_api_key uses it.
InitializeLLM(key, oracle, llm0, gm0) == LLMRun(LLMStart(key, oracle, llm0, gm0))

(***************************************************************************)
(* DocumentProcessor.initialize_embeddings                                 *)
(***************************************************************************)
DefaultEmbeddingModel == "models/text-embedding-004"

AlternativeModels == <<"models/embedding-001", "models/text-embedding-004">>

EmbeddingModels == {AlternativeModels[j] : j \in 1..Len(AlternativeModels)}

\* What one model does: "ok"; "ctor": GoogleGenerativeAIEmbeddings(...)
\* raises, so self.embeddings is not assigned; "test": the object is
\* assigned to self.embeddings and embed_query("test") raises.
EmbOutcomes == {"ok", "ctor", "test"}

EmbOracles == [EmbeddingModels -> EmbOutcomes]

NoEmb == [model |-> "None", key |-> 0]

EmbStart(key, oracle, emb0, em0) ==
    [pc |-> "first", key |-> key, oracle |-> oracle, j |-> 1,
     configured |-> em0, attempted |-> <<>>, ret |-> FALSE,
     embeddings |-> emb0, embedding_model |-> em0]

\* The try block: the configured model.
EmbFirst(c) ==
    LET model == c.embedding_model
        outcome == c.oracle[model]
        held == IF outcome = "ctor" THEN c.embeddings
                ELSE [model |-> model, key |-> c.key]
    IN IF outcome = "ok"
       THEN [c EXCEPT !.pc = "returned", !.ret = TRUE, !.embeddings = held,
                      !.attempted = Append(c.attempted, model)]
       ELSE [c EXCEPT !.pc = "alts", !.embeddings = held,
                      !.attempted = Append(c.attempted, model)]

\* Mutant: the alternative that passes its test is not written to the config.
EmbAlt_ConfigNotUpdated(c) ==
    LET model == AlternativeModels[c.j]
        outcome == c.oracle[model]
        held == IF outcome = "ctor" THEN c.embeddings
                ELSE [model |-> model, key |-> c.key]
    IN IF model = c.embedding_model
       THEN [c EXCEPT !.j = c.j + 1]
       ELSE IF outcome = "ok"
       THEN [c EXCEPT !.pc = "returned", !.ret = TRUE, !.embeddings = held,
                      !.attempted = Append(c.attempted, model)]
       ELSE [c EXCEPT !.j = c.j + 1, !.embeddings = held,
                      !.attempted = Append(c.attempted, model)]

\* One iteration of `for alt_model in alternative_models`.
EmbAlt(c) ==
    LET model == AlternativeModels[c.j]
        outcome == c.oracle[model]
        held == IF outcome = "ctor" THEN c.embeddings
                ELSE [model |-> model, key |-> c.key]
    IN IF model = c.embedding_model
       THEN [c EXCEPT !.j = c.j + 1]
       ELSE IF outcome = "ok"
       THEN [c EXCEPT !.pc = "returned", !.ret = TRUE, !.embeddings = held,
                      !.embedding_model = model,
                      !.attempted = Append(c.attempted, model)]
       ELSE [c EXCEPT !.j = c.j + 1, !.embeddings = held,
                      !.attempted = Append(c.attempted, model)]

EmbStepOnce(c) ==
    IF c.pc = "first" THEN EmbFirst(c)
    ELSE IF c.j > Len(AlternativeModels)
    THEN [c EXCEPT !.pc = "returned", !.ret = FALSE]
    ELSE EmbAlt(c)

RECURSIVE EmbRun(_)
EmbRun(c) == IF c.pc = "returned" THEN c ELSE EmbRun(EmbStepOnce(c))

\* The whole call, as set_api_key uses it.
InitializeEmbeddings(key, oracle, emb0, em0) == EmbRun(EmbStart(key, oracle, emb0, em0))

(***************************************************************************)
(* DocumentProcessor.load_and_process_pdfs                                 *)
(***************************************************************************)
\* File names of a directory, as <<stem, extension>>.
FileNames == {<<"a", ".pdf">>, <<"b", ".pdf">>, <<"c", ".PDF">>, <<"notes", ".txt">>}

\* f.endswith(".pdf"): the comparison is case sensitive.
EndsWithPdf(f) == f[2] = ".pdf"

\* The 'page' entry the loader puts in a chunk's metadata; "absent" when the
\* loader gives none.
LoaderPages == {"0", "absent"}

SeqsUpTo(S, n) == UNION {[1..k -> S] : k \in 0..n}

\* What PyMuPDFLoader(path).load_and_split(...) does for one file: it raises,
\* or returns the file's chunks (possibly none).
LoadResults ==
    {[ok |-> FALSE, chunks |-> <<>>]} \cup
    {[ok |-> TRUE, chunks |-> cs] : cs \in SeqsUpTo(LoaderPages, MaxChunks)}

\* os.listdir returns the names in an order of its own, each once.
Listings(n) ==
    {l \in SeqsUpTo(FileNames, n) : \A a, b \in 1..Len(l) : l[a] = l[b] => a = b}

\* A file the loop never opens (its name does not end in .pdf).
NotLoaded == [ok |-> FALSE, chunks |-> <<>>]

\* A directory as the call finds it: os.path.exists, os.listdir, and what
\* loading each listed .pdf file does.
Directories(n) ==
    {[exists |-> FALSE, listing |-> <<>>, contents |-> <<>>]} \cup
    UNION {{[exists |-> TRUE, listing |-> l, contents |-> c] :
               c \in {d \in [1..Len(l) -> LoadResults] :
                         \A k \in 1..Len(l) : ~EndsWithPdf(l[k]) => d[k] = NotLoaded}} :
           l \in Listings(n)}

\* The positions of the listing that pass the .pdf filter, in listing order.
PdfPositions(listing) ==
    SelectSeq([k \in 1..Len(listing) |-> k], LAMBDA k : EndsWithPdf(listing[k]))

\* Mutant: page_number copies the loader's entry without the 'Unknown'
\* default.
TagChunk_NoDefaultPage(page, pdf_file) ==
    [source |-> pdf_file, page |-> page, page_number |-> page]

\* page.metadata["source"] = pdf_file;
\* page.metadata['page_number'] = page.metadata.get('page', 'Unknown')
TagChunk(page, pdf_file) ==
    [source |-> pdf_file, page |-> page,
     page_number |-> IF page = "absent" THEN "Unknown" ELSE page]

TagChunks(chunks, pdf_file) ==
    [k \in 1..Len(chunks) |-> TagChunk(chunks[k], pdf_file)]

\* Entry of the call: the existence check, the listing and its filter.
PdfStart(dir) ==
    LET base == [pc |-> "loop", dir |-> dir, pdf_files |-> <<>>, i |-> 1,
                 documents |-> <<>>, problematic_files |-> <<>>,
                 warnings |-> <<>>, exc |-> "none"]
        pos == PdfPositions(dir.listing)
    IN IF ~dir.exists
       THEN [base EXCEPT !.pc = "raised", !.exc = "FileNotFoundError"]
       ELSE IF pos = <<>>
       THEN [base EXCEPT !.pc = "raised", !.exc = "ValueError"]
       ELSE [base EXCEPT !.pdf_files = pos]

\* Mutant: a file that fails to load ends the run with its exception.
PdfIterate_FailureAborts(c) ==
    LET k == c.pdf_files[c.i]
        pdf_file == c.dir.listing[k]
        loaded == c.dir.contents[k]
    IN IF loaded.ok
       THEN [c EXCEPT !.i = c.i + 1,
                      !.documents = c.documents \o TagChunks(loaded.chunks, pdf_file)]
       ELSE [c EXCEPT !.pc = "raised", !.exc = "Exception"]

\* One iteration of `for i, pdf_file in enumerate(pdf_files)`.
PdfIterate(c) ==
    LET k == c.pdf_files[c.i]
        pdf_file == c.dir.listing[k]
        loaded == c.dir.contents[k]
    IN IF loaded.ok
       THEN [c EXCEPT !.i = c.i + 1,
                      !.documents = c.documents \o TagChunks(loaded.chunks, pdf_file)]
       ELSE [c EXCEPT !.i = c.i + 1,
                      !.problematic_files = Append(c.problematic_files, pdf_file)]

\* After the loop: the aggregate warning, then return documents.
PdfFinish(c) ==
    [c EXCEPT !.pc = "returned",
              !.warnings = IF c.problematic_files # <<>>
                           THEN Append(c.warnings, c.problematic_files)
                           ELSE c.warnings]

PdfStepOnce(c) ==
    IF c.i > Len(c.pdf_files) THEN PdfFinish(c) ELSE PdfIterate(c)

RECURSIVE PdfRun(_)
PdfRun(c) == IF c.pc \in {"returned", "raised"} THEN c ELSE PdfRun(PdfStepOnce(c))

\* The whole call, as the ingestion worker uses it.
LoadAndProcessPdfs(dir) == PdfRun(PdfStart(dir))

(***************************************************************************)
(* QueryProcessor.process_query                                            *)
(***************************************************************************)
\* A metadata entry a chunk does not have.
Absent(key) == IF key = "source" THEN <<"absent", "">> ELSE "absent"

\* Chunks a similarity search may return: chunks this application stored
\* (tagged by load_and_process_pdfs), and a chunk of a collection written
\* by something else, without 'source' and 'page_number'.
RetrievedChunks ==
    {TagChunk(p, f) : p \in LoaderPages, f \in {<<"a", ".pdf">>, <<"b", ".pdf">>}} \cup
    {[source |-> Absent("source"), page |-> "0", page_number |-> Absent("page_number")]}

\* doc.metadata.get(key, default)
MetadataGet(doc, key, default) == IF doc[key] = Absent(key) THEN default ELSE doc[key]

\* display_source: f"{source_file}", then f" (Page: {page_num})" unless the
\* page is 'Unknown'.
DisplaySource(doc) ==
    LET source_file == MetadataGet(doc, "source", <<"Unknown Source", "">>)
        page_num == MetadataGet(doc, "page_number", MetadataGet(doc, "page", "Unknown"))
    IN IF page_num # "Unknown"
       THEN <<source_file, " (Page: ", page_num, ")">>
       ELSE <<source_file>>

\* Mutant: the labels are collected in a list.
SetAdd_Append(labels, label) == Append(labels, label)

\* unique_sources.add(display_source); the set is kept as the sequence of
\* its elements in the order they were first added.
SetAdd(labels, label) ==
    IF \E k \in 1..Len(labels) : labels[k] = label THEN labels ELSE Append(labels, label)

\* The answer shown for a failed query.
GenericAnswer == <<"Sorry, I couldn't process your query at this time.">>

\* The dictionary of the except branch.
QPFailure == [success |-> FALSE, error |-> "str(e)", answer |-> GenericAnswer]

\* Entry of the call and vector_db.similarity_search(query, k=...): on None
\* it raises AttributeError, otherwise it raises or returns `docs`.
QPStart(query, db, theLLM, docs, searchOk, invokeOk) ==
    LET base == [pc |-> "loop", query |-> query, theLLM |-> theLLM, invokeOk |-> invokeOk,
                 retrieved_docs |-> <<>>, i |-> 1, structured_context |-> <<>>,
                 unique_sources |-> <<>>, ret |-> QPFailure]
    IN IF db = "None" \/ ~searchOk
       THEN [base EXCEPT !.pc = "returned"]
       ELSE [base EXCEPT !.retrieved_docs = docs]

\* One iteration of `for i, doc in enumerate(retrieved_docs)`.
QPIterate(c) ==
    LET doc == c.retrieved_docs[c.i]
        display_source == DisplaySource(doc)
    IN [c EXCEPT !.i = c.i + 1,
                 !.structured_context =
                     Append(c.structured_context, <<"CONTEXT_ITEM", c.i, display_source, doc>>),
                 !.unique_sources = SetAdd(c.unique_sources, display_source)]

\* After the loop: self.llm.invoke(prompt) (AttributeError on None) and the
\* result dictionary.
QPFinish(c) ==
    IF c.theLLM = NoLLM \/ ~c.invokeOk
    THEN [c EXCEPT !.pc = "returned", !.ret = QPFailure]
    ELSE [c EXCEPT !.pc = "returned",
                   !.ret = [success |-> TRUE,
                            answer |-> <<"response to", c.query>>,
                            sources |-> c.unique_sources,
                            retrieved_docs |-> c.retrieved_docs,
                            context |-> c.structured_context,
                            num_sources |-> Len(c.retrieved_docs)]]

QPStepOnce(c) ==
    IF c.i > Len(c.retrieved_docs) THEN QPFinish(c) ELSE QPIterate(c)

RECURSIVE QPRun(_)
QPRun(c) == IF c.pc = "returned" THEN c ELSE QPRun(QPStepOnce(c))

\* The whole call, as the query worker uses it: the result dictionary.
QPProcessQuery(query, db, theLLM, docs, searchOk, invokeOk) ==
    QPRun(QPStart(query, db, theLLM, docs, searchOk, invokeOk)).ret

(***************************************************************************)
(* ScientificRAGApp: state after construction                              *)
(***************************************************************************)
IdleCall == [pc |-> "idle"]

NoResult == [success |-> FALSE, error |-> "None"]

\* No report file has been written.
NoExport == [written |-> FALSE, query |-> "", answer |-> <<>>, docs |-> <<>>]

\* The persist directory: missing, an empty directory, or a directory
\* holding the Chroma collection with `count` chunks.
PersistStates ==
    {[state |-> "absent", count |-> 0], [state |-> "empty", count |-> 0]} \cup
    {[state |-> "db", count |-> n] : n \in 0..MaxCount}

Questions == {"", "q1"}


\* str.strip() on the strings the model uses.
Strip(s) == IF s = " " THEN "" ELSE s

Init ==
    /\ api_key = 0
    /\ embeddings = NoEmb
    /\ llm = NoLLM
    /\ embedding_model = DefaultEmbeddingModel
    /\ generation_model = DefaultGenerationModel
    /\ is_processing = FALSE
    /\ vector_db = "None"
    /\ last_query_result = NoResult
    /\ last_query = "None"
    /\ last_submitted = "None"
    /\ process_btn = "normal"
    /\ ask_btn = "normal"
    /\ query_text_state = "normal"
    /\ query_text = ""
    /\ pdf_dir_var = "pdfs"
    /\ api_status_var = <<"API: Not Configured">>
    /\ db_status_var = <<"Database: Not Ready", 0>>
    /\ messagebox = <<>>
    /\ stderr = ""
    /\ ingest_workers = <<>>
    /\ query_workers = <<>>
    /\ after_queue = <<>>
    /\ persist_dir \in PersistStates
    /\ chroma_has_len \in BOOLEAN
    /\ llm_call = IdleCall
    /\ emb_call = IdleCall
    /\ pdf_call = IdleCall
    /\ qp_call = IdleCall
    /\ export_file = NoExport
    /\ chunk_size = DefaultChunkSize
    /\ chunk_overlap = DefaultChunkOverlap
    /\ max_retrieved_docs = MaxRetrievedDocs
    /\ text_splitter = TextSplitter(DefaultChunkSize, DefaultChunkOverlap)
    /\ status_var = <<"Ready - Please set your Google API key">>
    /\ results_text = <<>>
    /\ sources_tree = <<>>

(***************************************************************************)
(* The vector store                                                        *)
(***************************************************************************)
\* `not self.vector_db`: None is falsy; a Chroma object is falsy only if the
\* class defines __len__ and the collection is empty.
Falsy(db, pd) == db = "None" \/ (chroma_has_len /\ pd.count = 0)

\* DocumentProcessor.get_database_stats
GetDatabaseStats(db, pd) ==
    IF Falsy(db, pd) THEN [status |-> "not_initialized", count |-> 0]
    ELSE [status |-> "ready", count |-> pd.count]

\* ScientificRAGApp.update_database_status: the indicator and the two
\* widgets of the query interface, as <<db_status_var, ask_btn, query_text>>.
UpdateDatabaseStatus(db, pd) ==
    LET stats == GetDatabaseStats(db, pd)
    IN IF stats.status = "ready"
       THEN <<<<"Database: Ready", stats.count>>, "normal", "normal">>
       ELSE <<<<"Database: Not Ready", 0>>, "disabled", "disabled">>

\* Mutant: load_existing_database does not look at the directory.
LoadExistingDatabase_IgnoresDirectory(pd, chromaOk) == chromaOk

\* DocumentProcessor.load_existing_database: True iff the directory exists,
\* is not empty and Chroma(...) does not raise.
LoadExistingDatabase(pd, chromaOk) == pd.state = "db" /\ chromaOk

(***************************************************************************)
(* GUI thread: event handlers                                              *)
(***************************************************************************)
\* A message box is modal: until the user closes it the main window takes
\* no input. Every handler shows its message box after its last change to
\* the state modelled here, so the callbacks of the workers are run once the
\* box is closed.
NoDialog == messagebox = <<>>

\* The user closes the message box.
DismissDialog ==
    /\ messagebox # <<>>
    /\ messagebox' = <<>>
    /\ UNCHANGED <<status_var, results_text, sources_tree,
                   apiVars, appVars, process_btn, ask_btn, query_text_state, query_text,
                   pdf_dir_var, api_status_var, db_status_var, stderr, threadVars,
                   envVars, settingsVars, export_file,
                   callVars>>

\* The keys and the answers of the hosted API that the GUI specification
\* draws from: one key, for which every model answers. (SpecLLM and SpecEmb
\* cover the failures of the two initialisers.)
GuiKeys == {1}

GuiEmbOracles == {[m \in EmbeddingModels |-> "ok"]}

GuiLLMOracles == {[k \in 1..Len(ModelPreference) |-> "ok"]}

\* `"pro" in model_name and "flash" not in model_name`, on the model names
\* of model_preference.
IsPremium(model_name) == model_name \in {"gemini-1.5-pro", "gemini-pro"}

\* The status message of set_api_key once both initialisers returned True.
ReadyStatus(model_name) ==
    IF IsPremium(model_name) THEN <<"Ready - Using premium model with Pro access!">>
    ELSE <<"Ready - API configured successfully">>

\* Mutant: set_api_key looks only at the result of initialize_llm.
SetApiKeyEffect_LLMOnly(key, embOracle, llmOracle, chromaOk) ==
    LET e == InitializeEmbeddings(key, embOracle, embeddings, embedding_model)
        l == InitializeLLM(key, llmOracle, llm, generation_model)
        loaded == LoadExistingDatabase(persist_dir, chromaOk)
        db == IF loaded THEN "db" ELSE vector_db
    IN /\ NoDialog
       /\ api_key' = key
       /\ embeddings' = e.embeddings
       /\ embedding_model' = e.embedding_model
       /\ llm' = l.llm
       /\ generation_model' = l.generation_model
       /\ IF l.ret
          THEN /\ api_status_var' = <<"API: Connected">>
               /\ vector_db' = db
               /\ IF loaded
                  THEN /\ db_status_var' = UpdateDatabaseStatus(db, persist_dir)[1]
                       /\ status_var' = ReadyStatus(l.generation_model)
                       /\ ask_btn' = "normal"
                       /\ query_text_state' = "normal"
                  ELSE /\ status_var' = <<"Ready - Please process PDFs to create database">>
                       /\ UNCHANGED <<db_status_var, ask_btn, query_text_state>>
               /\ UNCHANGED messagebox
          ELSE /\ api_status_var' = <<"API: Error">>
               /\ status_var' = <<"Error - Failed to configure API">>
               /\ messagebox' = <<"API Error", "Failed to configure Google API. Please check your API key.">>
               /\ UNCHANGED <<vector_db, db_status_var, ask_btn, query_text_state>>
       /\ UNCHANGED <<results_text, sources_tree,
                   is_processing, last_query_result, last_query, last_submitted, process_btn,
                      query_text, pdf_dir_var, stderr, threadVars, envVars, settingsVars, export_file>>

\* ScientificRAGApp.set_api_key: what it does to the application.
SetApiKeyEffect(key, embOracle, llmOracle, chromaOk) ==
    LET e == InitializeEmbeddings(key, embOracle, embeddings, embedding_model)
        l == InitializeLLM(key, llmOracle, llm, generation_model)
        loaded == LoadExistingDatabase(persist_dir, chromaOk)
        db == IF loaded THEN "db" ELSE vector_db
    IN /\ NoDialog
       /\ api_key' = key
       /\ embeddings' = e.embeddings
       /\ embedding_model' = e.embedding_model
       /\ llm' = l.llm
       /\ generation_model' = l.generation_model
       /\ IF e.ret /\ l.ret
          THEN /\ api_status_var' = <<"API: Connected">>
               /\ vector_db' = db
               /\ IF loaded
                  THEN /\ db_status_var' = UpdateDatabaseStatus(db, persist_dir)[1]
                       /\ status_var' = ReadyStatus(l.generation_model)
                       /\ ask_btn' = "normal"
                       /\ query_text_state' = "normal"
                  ELSE /\ status_var' = <<"Ready - Please process PDFs to create database">>
                       /\ UNCHANGED <<db_status_var, ask_btn, query_text_state>>
               /\ UNCHANGED messagebox
          ELSE /\ api_status_var' = <<"API: Error">>
               /\ status_var' = <<"Error - Failed to configure API">>
               /\ messagebox' = <<"API Error", "Failed to configure Google API. Please check your API key.">>
               /\ UNCHANGED <<vector_db, db_status_var, ask_btn, query_text_state>>
       /\ UNCHANGED <<results_text, sources_tree,
                   is_processing, last_query_result, last_query, last_submitted, process_btn,
                      query_text, pdf_dir_var, stderr, threadVars, envVars, settingsVars, export_file>>

\* ScientificRAGApp.set_api_key (from prompt_api_key or configure_api_key)
SetApiKey(key, embOracle, llmOracle, chromaOk) ==
    /\ SetApiKeyEffect(key, embOracle, llmOracle, chromaOk)
    /\ UNCHANGED callVars

\* set_api_key, keeping the locals of its two initialiser calls as they
\* are when the calls return.
SetApiKeyTraced(key, embOracle, llmOracle, chromaOk) ==
    /\ SetApiKeyEffect(key, embOracle, llmOracle, chromaOk)
    /\ emb_call' = EmbRun(EmbStart(key, embOracle, embeddings, embedding_model))
    /\ llm_call' = LLMRun(LLMStart(key, llmOracle, llm, generation_model))
    /\ UNCHANGED <<pdf_call, qp_call>>

\* Typing in the question box, or clear_query; a disabled box takes no edit.
EditQuery(q) ==
    /\ NoDialog
    /\ query_text_state = "normal"
    /\ query_text' = q
    /\ query_text' # query_text
    /\ UNCHANGED <<status_var, results_text, sources_tree,
                   apiVars, appVars, process_btn, ask_btn, query_text_state, pdf_dir_var,
                   api_status_var, db_status_var, messagebox, stderr, threadVars,
                   envVars, settingsVars, export_file,
                   callVars>>

\* What the PDF Directory entry may hold: a path, nothing, or blanks.
PdfDirTexts == {"pdfs", "", " "}

\* Typing in the PDF Directory entry, or select_pdf_directory.
EditPdfDir(d) ==
    /\ NoDialog
    /\ pdf_dir_var' = d
    /\ pdf_dir_var' # pdf_dir_var
    /\ UNCHANGED <<status_var, results_text, sources_tree,
                   apiVars, appVars, process_btn, ask_btn, query_text_state, query_text,
                   api_status_var, db_status_var, messagebox, stderr, threadVars,
                   envVars, settingsVars, export_file,
                   callVars>>

IngestIds ==
    {ingest_workers[k].id : k \in 1..Len(ingest_workers)} \cup
    {after_queue[k].id : k \in {j \in 1..Len(after_queue) : after_queue[j].kind # "display"}}

FreshIngestId == CHOOSE n \in 1..(Cardinality(IngestIds) + 1) : n \notin IngestIds

\* Mutant: process_pdfs neither tests nor sets the busy state.
ProcessPdfs_NoBusyState ==
    /\ NoDialog
    /\ process_btn = "normal"
    /\ Len(ingest_workers) < MaxThreads
    /\ IF api_key = 0
       THEN /\ messagebox' = <<"Error", "Please configure your Google API key first.">>
            /\ UNCHANGED ingest_workers
       ELSE IF Strip(pdf_dir_var) = ""
       THEN /\ messagebox' = <<"Error", "Please select a PDF directory.">>
            /\ UNCHANGED ingest_workers
       ELSE /\ ingest_workers' = Append(ingest_workers,
                   [id |-> FreshIngestId, pc |-> "load",
                    pdf_directory |-> Strip(pdf_dir_var), documents |-> <<>>, e |-> "none"])
            /\ UNCHANGED messagebox
    /\ UNCHANGED <<status_var, results_text, sources_tree,
                   apiVars, appVars, process_btn, ask_btn,
                   query_text_state, query_text, pdf_dir_var, api_status_var,
                   db_status_var, stderr, query_workers, after_queue, envVars, settingsVars, export_file,
                   callVars>>

\* Mutant: process_pdfs tests neither the API key nor the directory field.
ProcessPdfs_NoChecks ==
    /\ NoDialog
    /\ process_btn = "normal"
    /\ Len(ingest_workers) < MaxThreads
    /\ IF is_processing
       THEN UNCHANGED <<is_processing, process_btn, messagebox, ingest_workers>>
       ELSE /\ is_processing' = TRUE
            /\ process_btn' = "disabled"
            /\ ingest_workers' = Append(ingest_workers,
                   [id |-> FreshIngestId, pc |-> "load",
                    pdf_directory |-> Strip(pdf_dir_var), documents |-> <<>>, e |-> "none"])
            /\ UNCHANGED messagebox
    /\ UNCHANGED <<status_var, results_text, sources_tree,
                   apiVars, vector_db, last_query_result, last_query, last_submitted, ask_btn,
                   query_text_state, query_text, pdf_dir_var, api_status_var,
                   db_status_var, stderr, query_workers, after_queue, envVars, settingsVars, export_file,
                   callVars>>

\* ScientificRAGApp.process_pdfs, up to and including the start of the thread.
\* (A thread that has scheduled its callback may take any time to end; the
\* number of such threads still alive is capped.)
ProcessPdfs ==
    /\ NoDialog
    /\ process_btn = "normal"
    /\ Len(ingest_workers) < MaxThreads
    /\ IF is_processing
       THEN UNCHANGED <<is_processing, process_btn, messagebox, ingest_workers>>
       ELSE IF api_key = 0
       THEN /\ messagebox' = <<"Error", "Please configure your Google API key first.">>
            /\ UNCHANGED <<is_processing, process_btn, ingest_workers>>
       ELSE IF Strip(pdf_dir_var) = ""
       THEN /\ messagebox' = <<"Error", "Please select a PDF directory.">>
            /\ UNCHANGED <<is_processing, process_btn, ingest_workers>>
       ELSE /\ is_processing' = TRUE
            /\ process_btn' = "disabled"
            /\ ingest_workers' = Append(ingest_workers,
                   [id |-> FreshIngestId, pc |-> "load",
                    pdf_directory |-> Strip(pdf_dir_var), documents |-> <<>>, e |-> "none"])
            /\ UNCHANGED messagebox
    /\ UNCHANGED <<status_var, results_text, sources_tree,
                   apiVars, vector_db, last_query_result, last_query, last_submitted, ask_btn,
                   query_text_state, query_text, pdf_dir_var, api_status_var,
                   db_status_var, stderr, query_workers, after_queue, envVars, settingsVars, export_file,
                   callVars>>

\* doc.metadata.get('source', 'Unknown Source')
SourceFile(doc) ==
    IF doc.source = Absent("source") THEN <<"Unknown Source", "">> ELSE doc.source

\* doc.metadata.get('page_number', doc.metadata.get('page', 'Unknown'))
PageNum(doc) ==
    IF doc.page_number # Absent("page_number") THEN doc.page_number
    ELSE IF doc.page # Absent("page") THEN doc.page
    ELSE "Unknown"

\* ScientificRAGApp.clear_sources: the tree after its items are deleted.
ClearSources == <<>>

\* ScientificRAGApp.display_sources_detailed: the tree after clear_sources
\* and one insert per retrieved chunk, `tags` holding the 0-based index.
DisplaySourcesDetailed(retrieved_docs) ==
    [j \in 1..Len(retrieved_docs) |->
        [text |-> <<"Passage ", j>>,
         values |-> <<SourceFile(retrieved_docs[j]), PageNum(retrieved_docs[j])>>,
         tags |-> j - 1]]

\* Queries whose result has not been handed to display_results yet.
QueriesInFlight ==
    Len(query_workers) +
    Cardinality({k \in 1..Len(after_queue) : after_queue[k].kind = "display"})

\* ScientificRAGApp.process_query, up to and including the start of the thread.
ProcessQuery ==
    /\ NoDialog
    /\ ask_btn = "normal"
    /\ QueriesInFlight < MaxInFlight
    /\ LET query == Strip(query_text)
       IN IF query = ""
          THEN /\ messagebox' = <<"Warning", "Please enter a question.">>
               /\ UNCHANGED <<ask_btn, results_text, sources_tree, query_workers, last_submitted>>
          ELSE IF Falsy(vector_db, persist_dir)
          THEN /\ messagebox' = <<"Error", "Database not ready. Please process PDFs first.">>
               /\ UNCHANGED <<ask_btn, results_text, sources_tree, query_workers, last_submitted>>
          ELSE /\ ask_btn' = "disabled"
               /\ results_text' = <<"Processing your question...">>
               /\ sources_tree' = ClearSources
               /\ query_workers' = Append(query_workers, [query |-> query])
               /\ last_submitted' = query
               /\ UNCHANGED messagebox
    /\ UNCHANGED <<status_var, apiVars, is_processing, vector_db, last_query_result,
                   last_query, process_btn, query_text_state, query_text, pdf_dir_var,
                   api_status_var, db_status_var, stderr, ingest_workers, after_queue,
                   envVars, settingsVars, export_file,
                   callVars>>

\* ScientificRAGApp.reset_database, the user having confirmed; rmtreeOk is
\* whether shutil.rmtree succeeds.
ResetDatabase(rmtreeOk) ==
    /\ NoDialog
    /\ IF rmtreeOk \/ persist_dir.state = "absent"
       THEN /\ persist_dir' = [state |-> "absent", count |-> 0]
            /\ vector_db' = "None"
            /\ db_status_var' = UpdateDatabaseStatus("None", persist_dir')[1]
            /\ ask_btn' = UpdateDatabaseStatus("None", persist_dir')[2]
            /\ query_text_state' = UpdateDatabaseStatus("None", persist_dir')[3]
            /\ status_var' = <<"Database reset - Please process PDFs to create new database">>
            /\ messagebox' = <<"Success", "Database reset successfully.">>
       ELSE /\ messagebox' = <<"Error", "Failed to reset database">>
            /\ UNCHANGED <<persist_dir, vector_db, db_status_var, ask_btn, query_text_state,
                           status_var>>
    /\ UNCHANGED <<results_text, sources_tree,
                   apiVars, is_processing, last_query_result, last_query, last_submitted, process_btn,
                   query_text, pdf_dir_var, api_status_var, stderr, threadVars,
                   chroma_has_len, settingsVars, export_file,
                   callVars>>

\* ScientificRAGApp.force_enable_query (Help > Debug: Force Enable Query)
ForceEnableQuery ==
    /\ NoDialog
    /\ ask_btn' = "normal"
    /\ query_text_state' = "normal"
    /\ status_var' = <<"Debug: Query interface force-enabled">>
    /\ messagebox' = <<"Debug", "Query interface has been force-enabled. You can now try asking questions.">>
    /\ UNCHANGED <<results_text, sources_tree,
                   apiVars, appVars, process_btn, query_text, pdf_dir_var, api_status_var,
                   db_status_var, stderr, threadVars, envVars, settingsVars, export_file,
                   callVars>>

\* What similarity_search returns when asked for k chunks.
SearchResults(k) ==
    SeqsUpTo(RetrievedChunks, IF k <= MaxRetrieved THEN k ELSE MaxRetrieved)

\* The chunks a search returns in the GUI specifications.
GuiRetrieved == {<<TagChunk("0", <<"a", ".pdf">>)>>}

\* The application is closed and started again: a new ScientificRAGApp; the
\* daemon threads and the scheduled callbacks are gone, the files stay.
Restart ==
    /\ api_key' = 0
    /\ embeddings' = NoEmb
    /\ llm' = NoLLM
    /\ embedding_model' = DefaultEmbeddingModel
    /\ generation_model' = DefaultGenerationModel
    /\ is_processing' = FALSE
    /\ vector_db' = "None"
    /\ last_query_result' = NoResult
    /\ last_query' = "None"
    /\ last_submitted' = "None"
    /\ process_btn' = "normal"
    /\ ask_btn' = "normal"
    /\ query_text_state' = "normal"
    /\ query_text' = ""
    /\ pdf_dir_var' = "pdfs"
    /\ api_status_var' = <<"API: Not Configured">>
    /\ db_status_var' = <<"Database: Not Ready", 0>>
    /\ status_var' = <<"Ready - Please set your Google API key">>
    /\ results_text' = <<>>
    /\ sources_tree' = <<>>
    /\ messagebox' = <<>>
    /\ stderr' = ""
    /\ ingest_workers' = <<>>
    /\ query_workers' = <<>>
    /\ after_queue' = <<>>
    /\ chunk_size' = DefaultChunkSize
    /\ chunk_overlap' = DefaultChunkOverlap
    /\ max_retrieved_docs' = MaxRetrievedDocs
    /\ text_splitter' = TextSplitter(DefaultChunkSize, DefaultChunkOverlap)
    /\ UNCHANGED <<envVars, export_file, callVars>>

\* What asksaveasfilename and the writing of the file can do.
ExportOutcomes == {"cancel", "ok", "open_raises", "write_raises"}

\* The report export_results writes: the query, the answer and the passages.
ExportReport(query, result) ==
    [written |-> TRUE, query |-> query, answer |-> result.answer,
     docs |-> IF result.success THEN result.retrieved_docs ELSE <<>>]

\* A report file that open() truncated and the writes did not complete.
PartialExport == [written |-> FALSE, query |-> "", answer |-> <<>>, docs |-> <<"partial">>]

\* ScientificRAGApp.export_results (File > Export Results)
ExportResults(outcome) ==
    /\ NoDialog
    /\ IF last_query_result = NoResult
       THEN /\ messagebox' = <<"No Results", "No query results to export.">>
            /\ UNCHANGED export_file
       ELSE CASE outcome = "cancel" -> UNCHANGED <<messagebox, export_file>>
              [] outcome = "ok" ->
                   /\ export_file' = ExportReport(last_query, last_query_result)
                   /\ messagebox' = <<"Success", "Results exported">>
              [] outcome = "open_raises" ->
                   /\ messagebox' = <<"Export Error", "Failed to export results">>
                   /\ UNCHANGED export_file
              [] outcome = "write_raises" ->
                   /\ export_file' = PartialExport
                   /\ messagebox' = <<"Export Error", "Failed to export results">>
    /\ UNCHANGED <<apiVars, appVars, process_btn, ask_btn, query_text_state, query_text,
                   pdf_dir_var, api_status_var, db_status_var, status_var, results_text, sources_tree,
                   stderr, threadVars, envVars, settingsVars, callVars>>

\* What the user may leave in an entry of the settings dialog.
EntryTexts == {"3", "200", "1000", "abc"}

\* IntVar.get(): the integer the entry's text denotes; TclError otherwise.
IsInt(text) == text \in {"3", "200", "1000"}

IntOf(text) == CASE text = "3" -> 3 [] text = "200" -> 200 [] text = "1000" -> 1000

\* show_advanced_settings.apply_settings (Settings > Advanced Settings,
\* Apply). The three assignments and the constructor run in order; an
\* exception ends the handler where it is raised, Tk reports it and the
\* dialog stays open. ctorRaises: whether RecursiveCharacterTextSplitter
\* rejects its arguments, which it may do only for an overlap larger than
\* the chunk size.
ApplySettings(size_text, overlap_text, max_docs_text, ctorRaises) ==
    /\ NoDialog
    /\ ctorRaises => (IsInt(size_text) /\ IsInt(overlap_text) /\ IsInt(max_docs_text)
                        /\ IntOf(overlap_text) > IntOf(size_text))
    /\ chunk_size' = IF IsInt(size_text) THEN IntOf(size_text) ELSE chunk_size
    /\ chunk_overlap' = IF IsInt(size_text) /\ IsInt(overlap_text)
                        THEN IntOf(overlap_text) ELSE chunk_overlap
    /\ max_retrieved_docs' =
          IF IsInt(size_text) /\ IsInt(overlap_text) /\ IsInt(max_docs_text)
          THEN IntOf(max_docs_text) ELSE max_retrieved_docs
    /\ IF ~(IsInt(size_text) /\ IsInt(overlap_text) /\ IsInt(max_docs_text))
       THEN /\ stderr' = "TclError"
            /\ UNCHANGED <<text_splitter, messagebox>>
       ELSE IF ctorRaises
       THEN /\ stderr' = "ValueError"
            /\ UNCHANGED <<text_splitter, messagebox>>
       ELSE /\ text_splitter' = TextSplitter(IntOf(size_text), IntOf(overlap_text))
            /\ messagebox' = <<"Settings Applied", "Settings updated successfully.">>
            /\ UNCHANGED stderr
    /\ UNCHANGED <<apiVars, appVars, process_btn, ask_btn, query_text_state, query_text,
                   pdf_dir_var, api_status_var, db_status_var, status_var, results_text, sources_tree,
                   threadVars, envVars, export_file, callVars>>

(***************************************************************************)
(* Worker threads                                                          *)
(***************************************************************************)
Min(a, b) == IF a <= b THEN a ELSE b

RemoveAt(s, k) == SubSeq(s, 1, k - 1) \o SubSeq(s, k + 1, Len(s))

\* A callback handed to root.after(0, ...). `id` names the worker whose
\* closure the lambda was made in.
Callback(kind, id, success, doc_count, msg, result) ==
    [kind |-> kind, id |-> id, success |-> success, doc_count |-> doc_count,
     msg |-> msg, result |-> result]

\* The directories the ingestion worker of the GUI specification may find:
\* missing, without a .pdf file, or holding one .pdf file.
GuiDirs ==
    {d \in Directories(1) :
        \A k \in 1..Len(d.listing) :
            /\ d.listing[k] \in {<<"a", ".pdf">>, <<"notes", ".txt">>}
            /\ \A n \in 1..Len(d.contents[k].chunks) : d.contents[k].chunks[n] = "0"}

\* Mutant: process_thread calls create_vector_database whatever the list.
IngestLoad_CreatesOnEmpty(k, dir) ==
    /\ ingest_workers[k].pc = "load"
    /\ LET w == ingest_workers[k]
           r == LoadAndProcessPdfs(dir)
       IN IF r.pc = "raised"
          THEN /\ ingest_workers' = [ingest_workers EXCEPT ![k].pc = "in_except", ![k].e = r.exc]
               /\ after_queue' = Append(after_queue,
                      Callback("error_e", w.id, FALSE, 0, "str(e)", NoResult))
          ELSE /\ ingest_workers' = [ingest_workers EXCEPT ![k].pc = "create",
                                                           ![k].documents = r.documents]
               /\ UNCHANGED after_queue
    /\ UNCHANGED <<apiVars, appVars, widgetVars, query_workers, envVars, settingsVars, export_file,
                   callVars>>

\* process_thread, first part: load_and_process_pdfs and the branch on its
\* result. An exception schedules lambda: self.on_processing_error(str(e))
\* from inside the except block, which the thread has yet to leave.
IngestLoad(k, dir) ==
    /\ ingest_workers[k].pc = "load"
    /\ LET w == ingest_workers[k]
           r == LoadAndProcessPdfs(dir)
       IN IF r.pc = "raised"
          THEN /\ ingest_workers' = [ingest_workers EXCEPT ![k].pc = "in_except", ![k].e = r.exc]
               /\ after_queue' = Append(after_queue,
                      Callback("error_e", w.id, FALSE, 0, "str(e)", NoResult))
          ELSE IF r.documents # <<>>
          THEN /\ ingest_workers' = [ingest_workers EXCEPT ![k].pc = "create",
                                                           ![k].documents = r.documents]
               /\ UNCHANGED after_queue
          ELSE /\ ingest_workers' = RemoveAt(ingest_workers, k)
               /\ after_queue' = Append(after_queue,
                      Callback("error", w.id, FALSE, 0, "No documents were processed", NoResult))
    /\ UNCHANGED <<apiVars, appVars, widgetVars, query_workers, envVars, settingsVars, export_file,
                   callVars>>

\* What DocumentProcessor.create_vector_database can do.
CreateOutcomes == {"ok", "makedirs_raises", "from_documents_raises"}

\* The persist directory after a failed Chroma.from_documents: os.makedirs
\* has run, and Chroma may have written its empty collection.
AfterFailedCreate(pd) ==
    IF pd.state = "db" THEN {pd}
    ELSE {[state |-> "empty", count |-> 0], [state |-> "db", count |-> 0]}

\* Mutant: a failed create_vector_database leaves the processor without
\* a store.
IngestCreate_FailureDropsStore(k, outcome) ==
    /\ ingest_workers[k].pc = "create"
    /\ LET w == ingest_workers[k]
           n == Len(w.documents)
       IN /\ CASE outcome = "ok" ->
                    /\ persist_dir.count + n <= MaxCount
                    /\ persist_dir' = [state |-> "db", count |-> persist_dir.count + n]
                    /\ vector_db' = "db"
               [] outcome = "makedirs_raises" ->
                    /\ vector_db' = "None"
                    /\ UNCHANGED persist_dir
               [] outcome = "from_documents_raises" ->
                    /\ persist_dir' \in AfterFailedCreate(persist_dir)
                    /\ vector_db' = "None"
          /\ after_queue' = Append(after_queue,
                 Callback("complete", w.id, outcome = "ok", n, "", NoResult))
          /\ ingest_workers' = RemoveAt(ingest_workers, k)
    /\ UNCHANGED <<apiVars, is_processing, last_query_result, last_query, last_submitted, widgetVars,
                   query_workers, chroma_has_len, settingsVars, export_file,
                   callVars>>

\* Mutant: Chroma.from_documents replaces the collection of the directory.
IngestCreate_Replaces(k, outcome) ==
    /\ ingest_workers[k].pc = "create"
    /\ LET w == ingest_workers[k]
           n == Len(w.documents)
       IN /\ CASE outcome = "ok" ->
                    /\ persist_dir.count + n <= MaxCount
                    /\ persist_dir' = [state |-> "db", count |-> n]
                    /\ vector_db' = "db"
               [] outcome = "makedirs_raises" ->
                    UNCHANGED <<persist_dir, vector_db>>
               [] outcome = "from_documents_raises" ->
                    /\ persist_dir' \in AfterFailedCreate(persist_dir)
                    /\ UNCHANGED vector_db
          /\ after_queue' = Append(after_queue,
                 Callback("complete", w.id, outcome = "ok", n, "", NoResult))
          /\ ingest_workers' = RemoveAt(ingest_workers, k)
    /\ UNCHANGED <<apiVars, is_processing, last_query_result, last_query, last_submitted, widgetVars,
                   query_workers, chroma_has_len, settingsVars, export_file,
                   callVars>>

\* process_thread, second part: create_vector_database(documents) and
\* lambda: self.on_processing_complete(success, len(documents)).
\* Chroma.from_documents on a persist directory that holds a collection adds
\* the documents to it under new ids.
IngestCreate(k, outcome) ==
    /\ ingest_workers[k].pc = "create"
    /\ LET w == ingest_workers[k]
           n == Len(w.documents)
       IN /\ CASE outcome = "ok" ->
                    /\ persist_dir.count + n <= MaxCount
                    /\ persist_dir' = [state |-> "db", count |-> persist_dir.count + n]
                    /\ vector_db' = "db"
               [] outcome = "makedirs_raises" ->
                    UNCHANGED <<persist_dir, vector_db>>
               [] outcome = "from_documents_raises" ->
                    /\ persist_dir' \in AfterFailedCreate(persist_dir)
                    /\ UNCHANGED vector_db
          /\ after_queue' = Append(after_queue,
                 Callback("complete", w.id, outcome = "ok", n, "", NoResult))
          /\ ingest_workers' = RemoveAt(ingest_workers, k)
    /\ UNCHANGED <<apiVars, is_processing, last_query_result, last_query, last_submitted, widgetVars,
                   query_workers, chroma_has_len, settingsVars, export_file,
                   callVars>>

\* process_thread leaves its except block (Python unbinds `e`) and ends.
IngestLeaveExcept(k) ==
    /\ ingest_workers[k].pc = "in_except"
    /\ ingest_workers' = RemoveAt(ingest_workers, k)
    /\ UNCHANGED <<apiVars, appVars, widgetVars, query_workers, after_queue,
                   envVars, settingsVars, export_file,
                   callVars>>

\* What the two network calls of QueryProcessor.process_query can do.
QueryOutcomes == {"ok", "search_raises", "invoke_raises"}

\* Mutant: a query_thread whose query failed ends without scheduling
\* display_results.
QueryRun_SilentOnFailure(k, outcome, docs) ==
    /\ k \in 1..Len(query_workers)
    /\ Len(docs) <= max_retrieved_docs
    /\ LET w == query_workers[k]
           result == QPProcessQuery(w.query, vector_db, llm, docs,
                                    outcome # "search_raises", outcome # "invoke_raises")
       IN /\ after_queue' = IF result.success
                            THEN Append(after_queue, Callback("display", 0, FALSE, 0, "", result))
                            ELSE after_queue
          /\ query_workers' = RemoveAt(query_workers, k)
    /\ UNCHANGED <<apiVars, appVars, widgetVars, ingest_workers, envVars, settingsVars,
                   export_file, callVars>>

\* query_thread: process_query on the store the processor holds now, asking
\* for config.max_retrieved_docs chunks, then
\* lambda: self.display_results(result).
QueryRun(k, outcome, docs) ==
    /\ k \in 1..Len(query_workers)
    /\ Len(docs) <= max_retrieved_docs
    /\ LET w == query_workers[k]
           result == QPProcessQuery(w.query, vector_db, llm, docs,
                                    outcome # "search_raises", outcome # "invoke_raises")
       IN /\ after_queue' = Append(after_queue, Callback("display", 0, FALSE, 0, "", result))
          /\ query_workers' = RemoveAt(query_workers, k)
    /\ UNCHANGED <<apiVars, appVars, widgetVars, ingest_workers, envVars, settingsVars,
                   export_file, callVars>>

(***************************************************************************)
(* GUI thread: callbacks from the workers                                  *)
(***************************************************************************)
\* ScientificRAGApp.on_processing_complete
OnProcessingComplete(success, doc_count) ==
    /\ is_processing' = FALSE
    /\ process_btn' = "normal"
    /\ IF success
       THEN /\ db_status_var' = UpdateDatabaseStatus(vector_db, persist_dir)[1]
            /\ ask_btn' = "normal"
            /\ query_text_state' = "normal"
            /\ status_var' = <<"Ready - Database updated successfully">>
            /\ messagebox' = <<"Success", "Successfully processed PDFs and created database">>
       ELSE /\ status_var' = <<"Error - Database creation failed">>
            /\ messagebox' = <<"Error", "Failed to create vector database.">>
            /\ UNCHANGED <<db_status_var, ask_btn, query_text_state>>
    /\ UNCHANGED <<results_text, sources_tree,
                   apiVars, vector_db, last_query_result, last_query, last_submitted, query_text,
                   pdf_dir_var, api_status_var, stderr, ingest_workers, query_workers,
                   envVars, settingsVars, export_file,
                   callVars>>

\* Mutant: on_processing_error clears the flag and leaves the button.
OnProcessingError_LeavesButton(error_message) ==
    /\ is_processing' = FALSE
    /\ status_var' = <<"Error - Processing failed">>
    /\ messagebox' = <<"Processing Error", "Failed to process PDFs:", error_message>>
    /\ UNCHANGED <<results_text, sources_tree, process_btn,
                   apiVars, vector_db, last_query_result, last_query, last_submitted, ask_btn,
                   query_text_state, query_text, pdf_dir_var, api_status_var,
                   db_status_var, stderr, ingest_workers, query_workers, envVars, settingsVars, export_file,
                   callVars>>

\* ScientificRAGApp.on_processing_error
OnProcessingError(error_message) ==
    /\ is_processing' = FALSE
    /\ process_btn' = "normal"
    /\ status_var' = <<"Error - Processing failed">>
    /\ messagebox' = <<"Processing Error", "Failed to process PDFs:", error_message>>
    /\ UNCHANGED <<results_text, sources_tree,
                   apiVars, vector_db, last_query_result, last_query, last_submitted, ask_btn,
                   query_text_state, query_text, pdf_dir_var, api_status_var,
                   db_status_var, stderr, ingest_workers, query_workers, envVars, settingsVars, export_file,
                   callVars>>

\* Tk reports an exception raised by a callback on stderr and goes on.
ReportCallbackException(name) ==
    /\ stderr' = name
    /\ UNCHANGED <<status_var, results_text, sources_tree,
                   apiVars, appVars, process_btn, ask_btn, query_text_state, query_text,
                   pdf_dir_var, api_status_var, db_status_var, messagebox,
                   ingest_workers, query_workers, envVars, settingsVars, export_file,
                   callVars>>

\* The text display_results puts in the Answer box.
ResultsText(result) ==
    IF result.success THEN <<result.answer>> ELSE <<"Error: ", result.error>>

\* ScientificRAGApp.display_results
DisplayResults(result) ==
    /\ results_text' = ResultsText(result)
    /\ sources_tree' = IF result.success
                       THEN DisplaySourcesDetailed(result.retrieved_docs)
                       ELSE sources_tree
    /\ last_query_result' = result
    /\ last_query' = Strip(query_text)
    /\ status_var' = IF result.success THEN <<"Query complete", result.num_sources>>
                     ELSE <<"Query failed">>
    /\ ask_btn' = "normal"
    /\ UNCHANGED <<apiVars, is_processing, vector_db, process_btn, query_text_state,
                   query_text, pdf_dir_var, api_status_var, db_status_var, messagebox,
                   stderr, ingest_workers, query_workers, last_submitted, envVars,
                   settingsVars, export_file, callVars>>

\* lambda: self.on_processing_error(str(e)) reads `e` from the closure of
\* process_thread: bound while that thread is inside its except block,
\* unbound (NameError) once the thread has left it.
ExceptionCell(id) ==
    LET live == {k \in 1..Len(ingest_workers) :
                    ingest_workers[k].id = id /\ ingest_workers[k].pc = "in_except"}
    IN IF live = {} THEN "unbound" ELSE ingest_workers[CHOOSE k \in live : TRUE].e

\* The Tk main loop runs the oldest scheduled callback.
Dispatch ==
    /\ NoDialog
    /\ after_queue # <<>>
    /\ after_queue' = Tail(after_queue)
    /\ LET c == Head(after_queue)
       IN CASE c.kind = "complete" -> OnProcessingComplete(c.success, c.doc_count)
            [] c.kind = "error" -> OnProcessingError(c.msg)
            [] c.kind = "error_e" ->
                 IF ExceptionCell(c.id) = "unbound"
                 THEN ReportCallbackException("NameError")
                 ELSE OnProcessingError(ExceptionCell(c.id))
            [] c.kind = "display" -> DisplayResults(c.result)

Next ==
    \/ \E key \in GuiKeys, eo \in GuiEmbOracles, lo \in GuiLLMOracles, chromaOk \in BOOLEAN :
          SetApiKey(key, eo, lo, chromaOk)
    \/ \E q \in Questions : EditQuery(q)
    \/ ProcessPdfs
    \/ ProcessQuery
    \/ \E rmtreeOk \in BOOLEAN : ResetDatabase(rmtreeOk)
    \/ ForceEnableQuery
    \/ DismissDialog
    \/ \E k \in 1..Len(ingest_workers), dir \in GuiDirs : IngestLoad(k, dir)
    \/ \E k \in 1..Len(ingest_workers), o \in CreateOutcomes : IngestCreate(k, o)
    \/ \E k \in 1..Len(ingest_workers) : IngestLeaveExcept(k)
    \/ \E k \in 1..Len(query_workers), o \in QueryOutcomes, docs \in GuiRetrieved :
          QueryRun(k, o, docs)
    \/ Dispatch

Spec == Init /\ [][Next]_vars

(***************************************************************************)
(* Ingestion alone: the handlers, the ingestion worker and a restart       *)
(***************************************************************************)
\* The generation models all answer, or none does.
AllLLMOracles == {[k \in 1..Len(ModelPreference) |-> "ok"],
                  [k \in 1..Len(ModelPreference) |-> "other"]}

\* The directories the ingestion worker may find: as GuiDirs, with up to
\* MaxChunks chunks in the file.
IngestDirs ==
    {d \in Directories(1) :
        \A k \in 1..Len(d.listing) :
            d.listing[k] \in {<<"a", ".pdf">>, <<"notes", ".txt">>}}

NextIngest ==
    \/ \E key \in GuiKeys, eo \in GuiEmbOracles, lo \in AllLLMOracles, chromaOk \in BOOLEAN :
          SetApiKey(key, eo, lo, chromaOk)
    \/ \E d \in PdfDirTexts : EditPdfDir(d)
    \/ ProcessPdfs
    \/ \E rmtreeOk \in BOOLEAN : ResetDatabase(rmtreeOk)
    \/ DismissDialog
    \/ \E k \in 1..Len(ingest_workers), dir \in IngestDirs : IngestLoad(k, dir)
    \/ \E k \in 1..Len(ingest_workers), o \in CreateOutcomes : IngestCreate(k, o)
    \/ \E k \in 1..Len(ingest_workers) : IngestLeaveExcept(k)
    \/ Dispatch
    \/ Restart

SpecIngest == Init /\ [][NextIngest]_vars

(***************************************************************************)
(* Queries alone: the handlers and the query workers                       *)
(***************************************************************************)
AskQuestions == {"", "q1", "q2"}

NextAsk ==
    \/ \E key \in GuiKeys, eo \in GuiEmbOracles, lo \in GuiLLMOracles, chromaOk \in BOOLEAN :
          SetApiKey(key, eo, lo, chromaOk)
    \/ \E q \in AskQuestions : EditQuery(q)
    \/ ProcessQuery
    \/ ForceEnableQuery
    \/ ResetDatabase(TRUE)
    \/ DismissDialog
    \/ \E k \in 1..Len(query_workers), o \in QueryOutcomes, docs \in GuiRetrieved :
          QueryRun(k, o, docs)
    \/ Dispatch

SpecAsk == Init /\ [][NextAsk]_vars

\* A started thread runs to its end, a scheduled callback is run and an open
\* message box is closed.
SpecAskFair ==
    /\ SpecAsk
    /\ WF_vars(\E k \in 1..Len(query_workers), o \in QueryOutcomes, docs \in GuiRetrieved :
                  QueryRun(k, o, docs))
    /\ SF_vars(Dispatch)
    /\ WF_vars(DismissDialog)

\* The queries, and the export of the result held.
NextExport ==
    \/ NextAsk
    \/ \E o \in ExportOutcomes : ExportResults(o)

SpecExport == Init /\ [][NextExport]_vars

(***************************************************************************)
(* The API key: set_api_key with keys the service accepts or rejects       *)
(***************************************************************************)
\* Every embedding model behaves alike: it answers, its constructor raises,
\* or its test call raises.
KeyEmbOracles == {[m \in EmbeddingModels |-> o] : o \in EmbOutcomes}

\* The one directory the ingestion worker finds: a.pdf with one chunk.
KeyDirs ==
    {d \in GuiDirs : Len(d.listing) = 1 /\ d.listing[1] = <<"a", ".pdf">>
                        /\ d.contents[1].ok /\ Len(d.contents[1].chunks) = 1}

NextKey ==
    \/ \E key \in Keys, eo \in KeyEmbOracles, lo \in AllLLMOracles, chromaOk \in BOOLEAN :
          SetApiKeyTraced(key, eo, lo, chromaOk)
    \/ DismissDialog
    \/ \E rmtreeOk \in BOOLEAN : ResetDatabase(rmtreeOk)

SpecKey == Init /\ [][NextKey]_vars

\* The keys in use: ingestions and queries after any sequence of
\* set_api_key calls in which the embedding models answer and the
\* generation models all answer or all fail.
NextKeyUse ==
    \/ \E key \in Keys, eo \in GuiEmbOracles, lo \in AllLLMOracles :
          SetApiKey(key, eo, lo, TRUE)
    \/ DismissDialog
    \/ \E q \in Questions : EditQuery(q)
    \/ ProcessQuery
    \/ \E k \in 1..Len(query_workers), docs \in GuiRetrieved : QueryRun(k, "ok", docs)
    \/ ProcessPdfs
    \/ \E k \in 1..Len(ingest_workers), dir \in KeyDirs : IngestLoad(k, dir)
    \/ \E k \in 1..Len(ingest_workers) : IngestCreate(k, "ok")
    \/ Dispatch

SpecKeyUse == Init /\ [][NextKeyUse]_vars

(***************************************************************************)
(* The settings dialog                                                     *)
(***************************************************************************)
NextSettings ==
    \/ \E a, b, c \in EntryTexts, ctorRaises \in BOOLEAN : ApplySettings(a, b, c, ctorRaises)
    \/ DismissDialog
    \/ Restart

SpecSettings == Init /\ [][NextSettings]_vars

(***************************************************************************)
(* The initialisers and the PDF loader, one loop iteration per step        *)
(***************************************************************************)
LLMBegin ==
    /\ llm_call.pc \in {"idle", "returned"}
    /\ \E key \in Keys, oracle \in LLMOracles :
          llm_call' = LLMStart(key, oracle, llm, generation_model)
    /\ UNCHANGED <<apiVars, guiVars, emb_call, pdf_call, qp_call>>

LLMStep ==
    /\ llm_call.pc = "loop"
    /\ llm_call' = LLMStepOnce(llm_call)
    /\ llm' = llm_call'.llm
    /\ generation_model' = llm_call'.generation_model
    /\ UNCHANGED <<api_key, embeddings, embedding_model, guiVars, emb_call, pdf_call, qp_call>>

NextLLM == LLMBegin \/ LLMStep

SpecLLM == Init /\ [][NextLLM]_vars

EmbBegin ==
    /\ emb_call.pc \in {"idle", "returned"}
    /\ \E key \in Keys, oracle \in EmbOracles :
          emb_call' = EmbStart(key, oracle, embeddings, embedding_model)
    /\ UNCHANGED <<apiVars, guiVars, llm_call, pdf_call, qp_call>>

EmbStep ==
    /\ emb_call.pc \in {"first", "alts"}
    /\ emb_call' = EmbStepOnce(emb_call)
    /\ embeddings' = emb_call'.embeddings
    /\ embedding_model' = emb_call'.embedding_model
    /\ UNCHANGED <<api_key, llm, generation_model, guiVars, llm_call, pdf_call, qp_call>>

NextEmb == EmbBegin \/ EmbStep

SpecEmb == Init /\ [][NextEmb]_vars

PdfBegin ==
    /\ pdf_call.pc = "idle"
    /\ \E dir \in Directories(MaxFiles) : pdf_call' = PdfStart(dir)
    /\ UNCHANGED <<apiVars, guiVars, llm_call, emb_call, qp_call>>

PdfStep ==
    /\ pdf_call.pc = "loop"
    /\ pdf_call' = PdfStepOnce(pdf_call)
    /\ UNCHANGED <<apiVars, guiVars, llm_call, emb_call, qp_call>>

NextPDF == PdfBegin \/ PdfStep

SpecPDF == Init /\ [][NextPDF]_vars

(***************************************************************************)
(* load_and_process_pdfs on the worker thread, one file per step, while    *)
(* the settings dialog is used on the GUI thread                           *)
(***************************************************************************)
\* A directory with two .pdf files that both load, one chunk each.
SplitDirs ==
    {[exists |-> TRUE,
      listing |-> <<<<"a", ".pdf">>, <<"b", ".pdf">>>>,
      contents |-> <<[ok |-> TRUE, chunks |-> <<"0">>], [ok |-> TRUE, chunks |-> <<"0">>]>>]}

\* The entries the user applies in this specification: a chunk size, with
\* the overlap and the number of chunks to retrieve set to 3.
SplitSizeTexts == {"200", "1000"}

\* The call starts. Besides its locals the record keeps the text splitter
\* the processor holds at the start and, per file split, the one passed to
\* load_and_split.
SplitBegin ==
    /\ pdf_call.pc = "idle"
    /\ \E dir \in SplitDirs :
          pdf_call' = PdfStart(dir) @@ [started_with |-> text_splitter, split_with |-> <<>>]
    /\ UNCHANGED <<apiVars, guiVars, llm_call, emb_call, qp_call>>

\* One step of the loop; load_and_split(text_splitter=self.text_splitter)
\* reads the attribute when the file is split.
SplitStep ==
    /\ pdf_call.pc = "loop"
    /\ LET c == PdfStepOnce(pdf_call)
       IN pdf_call' = IF pdf_call.i <= Len(pdf_call.pdf_files)
                      THEN [c EXCEPT !.split_with = Append(@, text_splitter)]
                      ELSE c
    /\ UNCHANGED <<apiVars, guiVars, llm_call, emb_call, qp_call>>

NextSplit ==
    \/ SplitBegin
    \/ SplitStep
    \/ \E a \in SplitSizeTexts : ApplySettings(a, "3", "3", FALSE)
    \/ DismissDialog

SpecSplit == Init /\ [][NextSplit]_vars

(***************************************************************************)
(* QueryProcessor.process_query, one iteration at a time                   *)
(***************************************************************************)
QPBegin ==
    /\ qp_call.pc = "idle"
    /\ \E query \in Questions \ {""}, db \in {"None", "db"},
          theLLM \in {NoLLM, [model |-> DefaultGenerationModel, key |-> 1]},
          docs \in SearchResults(max_retrieved_docs), searchOk \in BOOLEAN,
          invokeOk \in BOOLEAN :
          qp_call' = QPStart(query, db, theLLM, docs, searchOk, invokeOk)
    /\ UNCHANGED <<apiVars, guiVars, llm_call, emb_call, pdf_call>>

QPStep ==
    /\ qp_call.pc = "loop"
    /\ qp_call' = QPStepOnce(qp_call)
    /\ UNCHANGED <<apiVars, guiVars, llm_call, emb_call, pdf_call>>

NextQP == QPBegin \/ QPStep

SpecQP == Init /\ [][NextQP]_vars

(***************************************************************************)
(* Properties                                                              *)
(***************************************************************************)
Range(s) == {s[k] : k \in 1..Len(s)}

NoDuplicates(s) == \A a, b \in 1..Len(s) : s[a] = s[b] => a = b

\* The index of the first model of the list whose test call answers; 0 if none.
FirstOk(oracle) ==
    IF \E k \in DOMAIN oracle : oracle[k] = "ok"
    THEN CHOOSE k \in DOMAIN oracle :
            /\ oracle[k] = "ok"
            /\ \A m \in DOMAIN oracle : oracle[m] = "ok" => k <= m
    ELSE 0

\* C7: initialize_llm tries gemini-1.5-pro, gemini-1.5-flash, gemini-pro in
\* that order and stops at the first model whose test call succeeds. It
\* returns True iff some model succeeded; then self.llm and
\* config.generation_model are the first model that answered and no later
\* model was attempted; on False every model was attempted exactly once.
C7_OrderedFallback ==
    /\ llm_call.pc \in {"loop", "returned"} =>
          /\ llm_call.attempted = SubSeq(ModelPreference, 1, Len(llm_call.attempted))
          /\ \A k \in 1..Len(llm_call.attempted) - 1 : llm_call.oracle[k] # "ok"
    /\ llm_call.pc = "returned" =>
          LET f == FirstOk(llm_call.oracle)
          IN /\ llm_call.ret = (f # 0)
             /\ llm_call.ret =>
                   /\ llm.model = ModelPreference[f]
                   /\ llm.key = llm_call.key
                   /\ generation_model = ModelPreference[f]
                   /\ Len(llm_call.attempted) = f
             /\ ~llm_call.ret => llm_call.attempted = ModelPreference

\* C7 witness: a call that returned True after two failures, and one that
\* returned False, are both reachable (the second disjunct alone is the
\* exhausted list).
C7_Witness ==
    /\ llm_call.pc = "returned"
    /\ llm_call.ret
    /\ Len(llm_call.attempted) = 3
    /\ llm.model = "gemini-pro"

\* The oracle with every failure class replaced by "other".
EraseClasses(oracle) == [k \in DOMAIN oracle |-> IF oracle[k] = "ok" THEN "ok" ELSE "other"]

\* C8: the class of a model's failure changes only the log. The models
\* attempted and the returned outcome (and the model chosen) are those of the
\* call whose failures all have the class "other", and no model is attempted
\* twice.
C8_FailureClassOnlyLogged ==
    llm_call.pc = "returned" =>
        LET plain == InitializeLLM(llm_call.key, EraseClasses(llm_call.oracle),
                                   NoLLM, DefaultGenerationModel)
        IN /\ llm_call.attempted = plain.attempted
           /\ llm_call.ret = plain.ret
           /\ llm_call.ret => llm = plain.llm /\ generation_model = plain.generation_model
           /\ NoDuplicates(llm_call.attempted)
           /\ Len(llm_call.log) = Len(llm_call.attempted) + (IF llm_call.ret THEN 0 ELSE 1)

\* C8 witness: a finished call that met a quota failure and then a
\* permission failure before a model answered.
C8_Witness ==
    /\ llm_call.pc = "returned"
    /\ llm_call.oracle[1] = "quota"
    /\ llm_call.oracle[2] = "permission"
    /\ llm_call.ret
    /\ llm_call.log[1][3] # llm_call.log[2][3]

\* The alternatives the fallback loop may try, in list order.
AltCandidates(configured) ==
    SelectSeq(AlternativeModels, LAMBDA m : m # configured)

\* C9: initialize_embeddings tries the configured model, then each
\* alternative other than the configured one in list order, each at most
\* once, stopping at the first that passes its test. It returns True iff an
\* attempted model passed; then config.embedding_model names the model held
\* in self.embeddings; it returns False only when every attempted model
\* failed.
C9_EmbeddingFallback ==
    emb_call.pc = "returned" =>
        LET tried == <<emb_call.configured>> \o AltCandidates(emb_call.configured)
            n == Len(emb_call.attempted)
        IN /\ n >= 1
           /\ emb_call.attempted = SubSeq(tried, 1, n)
           /\ NoDuplicates(emb_call.attempted)
           /\ \A k \in 1..n - 1 : emb_call.oracle[emb_call.attempted[k]] # "ok"
           /\ emb_call.ret = (\E k \in 1..n : emb_call.oracle[emb_call.attempted[k]] = "ok")
           /\ emb_call.ret =>
                 /\ embeddings.model = embedding_model
                 /\ embeddings.key = emb_call.key
                 /\ embedding_model = emb_call.attempted[n]
           /\ ~emb_call.ret =>
                 /\ emb_call.attempted = tried
                 /\ \A k \in 1..n : emb_call.oracle[emb_call.attempted[k]] # "ok"

\* C9 witness: the configured model failed and an alternative passed.
C9_Witness ==
    /\ emb_call.pc = "returned"
    /\ emb_call.ret
    /\ Len(emb_call.attempted) = 2
    /\ embedding_model # emb_call.configured

\* Ingestions whose completion handler has not run: a worker that has yet
\* to schedule its callback, or a scheduled callback not yet run.
PendingIngestions ==
    {ingest_workers[k].id :
        k \in {j \in 1..Len(ingest_workers) : ingest_workers[j].pc \in {"load", "create"}}}
    \cup
    {after_queue[k].id :
        k \in {j \in 1..Len(after_queue) : after_queue[j].kind # "display"}}

\* C1: at most one ingestion is pending at any time, and is_processing is
\* true from the start of a worker until its completion handler has run, so
\* process_pdfs starts no worker while an earlier ingestion is pending.
C1_OneIngestionAtATime ==
    /\ Cardinality(PendingIngestions) <= 1
    /\ PendingIngestions # {} => is_processing
    /\ \A k \in 1..Len(ingest_workers) :
          ingest_workers[k].pc \in {"load", "create"} => is_processing

\* C1 witness: a worker has created the store and ended; its
\* on_processing_complete callback waits, is_processing is still true and
\* the Process button is still disabled.
C1_Witness ==
    /\ is_processing
    /\ process_btn = "disabled"
    /\ Cardinality(PendingIngestions) = 1
    /\ ingest_workers = <<>>
    /\ \E k \in 1..Len(after_queue) :
          after_queue[k].kind = "complete" /\ after_queue[k].success

\* C2: at most one query is in flight (started and its result not yet given
\* to display_results) at any time.
C2_OneQueryInFlight == QueriesInFlight <= 1

\* C3: an ingestion and a query are never in flight at the same time.
C3_IngestionExcludesQuery == ~(PendingIngestions # {} /\ QueriesInFlight > 0)

C5_NoPdfErrorReported ==
    [][(after_queue # <<>> /\ Head(after_queue).kind = "error_e"
            /\ after_queue' = Tail(after_queue)) =>
          /\ messagebox' \in {<<"Processing Error", "Failed to process PDFs:", x>> :
                                 x \in {"FileNotFoundError", "ValueError"}}
          /\ ~is_processing'
          /\ vector_db' = vector_db
          /\ persist_dir' = persist_dir]_vars

\* C6: every ingestion worker signals completion: once no ingestion is
\* pending (no worker at work, no callback waiting), a completion handler
\* has run, so is_processing is false and the Process button is enabled.
C6_CompletionSignalled ==
    PendingIngestions = {} => (~is_processing /\ process_btn = "normal")

\* The chunks of the files that load, tagged with their file, concatenated
\* in the order of `positions`.
RECURSIVE ChunksOfLoaded(_, _)
ChunksOfLoaded(dir, positions) ==
    IF positions = <<>> THEN <<>>
    ELSE LET k == Head(positions)
             here == IF dir.contents[k].ok
                     THEN [n \in 1..Len(dir.contents[k].chunks) |->
                              [source |-> dir.listing[k],
                               page |-> dir.contents[k].chunks[n],
                               page_number |-> IF dir.contents[k].chunks[n] = "absent"
                                               THEN "Unknown"
                                               ELSE dir.contents[k].chunks[n]]]
                     ELSE <<>>
         IN here \o ChunksOfLoaded(dir, Tail(positions))

\* C10: a PDF that fails to load or split is skipped without aborting the
\* run: once the directory holds a .pdf file the call returns, its result is
\* the concatenation in listing order of the chunks of the files that loaded,
\* and the files that failed, and only those, are named in the one aggregate
\* warning issued at the end.
C10_FailedFilesSkipped ==
    /\ (pdf_call.pc = "raised") =>
          \/ ~pdf_call.dir.exists
          \/ \A k \in 1..Len(pdf_call.dir.listing) : ~EndsWithPdf(pdf_call.dir.listing[k])
    /\ (pdf_call.pc = "returned") =>
          LET dir == pdf_call.dir
              pdfs == PdfPositions(dir.listing)
              failed == SelectSeq(pdfs, LAMBDA k : ~dir.contents[k].ok)
              failedNames == [n \in 1..Len(failed) |-> dir.listing[failed[n]]]
          IN /\ pdf_call.documents = ChunksOfLoaded(dir, pdfs)
             /\ Len(pdf_call.warnings) <= 1
             /\ (failed = <<>>) <=> (pdf_call.warnings = <<>>)
             /\ failed # <<>> => pdf_call.warnings = <<failedNames>>

\* C10 witness: a returned run in which the first .pdf file failed and the
\* second loaded chunks, with the one aggregate warning logged.
C10_Witness ==
    /\ pdf_call.pc = "returned"
    /\ Len(pdf_call.pdf_files) >= 2
    /\ ~pdf_call.dir.contents[pdf_call.pdf_files[1]].ok
    /\ pdf_call.dir.contents[pdf_call.pdf_files[2]].ok
    /\ Len(pdf_call.documents) >= 1
    /\ Len(pdf_call.warnings) = 1

\* C11: every chunk collected by load_and_process_pdfs carries its origin:
\* its 'source' is the name of a listed .pdf file that loaded and that the
\* loop has visited, its page is one of that file's pages, 'page_number' is
\* present (the loader's page, or 'Unknown'), and each visited file
\* contributes exactly as many chunks as the loader returned for it.
C11_ChunkCarriesOrigin ==
    pdf_call.pc \in {"loop", "returned"} =>
        LET visited == {pdf_call.pdf_files[j] : j \in 1..(pdf_call.i - 1)}
            docs == pdf_call.documents
        IN /\ \A n \in 1..Len(docs) :
                 /\ docs[n].page_number # "absent"
                 /\ docs[n].page_number = (IF docs[n].page = "absent" THEN "Unknown"
                                           ELSE docs[n].page)
                 /\ \E k \in visited :
                       /\ docs[n].source = pdf_call.dir.listing[k]
                       /\ EndsWithPdf(docs[n].source)
                       /\ pdf_call.dir.contents[k].ok
                       /\ \E m \in 1..Len(pdf_call.dir.contents[k].chunks) :
                             pdf_call.dir.contents[k].chunks[m] = docs[n].page
           /\ \A k \in visited :
                 Cardinality({n \in 1..Len(docs) : docs[n].source = pdf_call.dir.listing[k]})
                    = Len(pdf_call.dir.contents[k].chunks)

\* C11 witness: a returned run with chunks of two different files, one of
\* them without a page from the loader.
C11_Witness ==
    /\ pdf_call.pc = "returned"
    /\ \E n, m \in 1..Len(pdf_call.documents) :
          /\ pdf_call.documents[n].source # pdf_call.documents[m].source
          /\ pdf_call.documents[n].page_number = "Unknown"
          /\ pdf_call.documents[m].page_number = "0"

\* The step is a confirmed reset_database that removed the directory.
ResetStep ==
    /\ messagebox = <<>>
    /\ messagebox' = <<"Success", "Database reset successfully.">>

\* The step is a process_thread scheduling on_processing_complete(success, n).
CreateStep(success) ==
    /\ Len(after_queue') = Len(after_queue) + 1
    /\ after_queue'[Len(after_queue')].kind = "complete"
    /\ after_queue'[Len(after_queue')].success = success

\* C12: with no database reset in between, the chunk count of the store
\* never decreases, and each successful create_vector_database adds
\* len(documents) >= 1 chunks to the persisted collection, so ingesting the
\* same file again gives a strictly larger count.
C12_CountGrows ==
    [][~ResetStep =>
          /\ persist_dir'.count >= persist_dir.count
          /\ CreateStep(TRUE) =>
                /\ after_queue'[Len(after_queue')].doc_count >= 1
                /\ persist_dir'.count =
                      persist_dir.count + after_queue'[Len(after_queue')].doc_count
                /\ persist_dir'.count > persist_dir.count]_vars

\* C12 witness: a first ingestion has completed (its status message is
\* still shown), and a second one has just added its chunk to the store,
\* which now holds two.
C12_Witness ==
    /\ status_var = <<"Ready - Database updated successfully">>
    /\ persist_dir.count = 2
    /\ \E k \in 1..Len(after_queue) :
          /\ after_queue[k].kind = "complete"
          /\ after_queue[k].success
          /\ after_queue[k].doc_count = 1

\* The label of a retrieved chunk: '<file>', followed by ' (Page: <n>)' when
\* the chunk has a page.
SourceLabel(doc) ==
    LET file == IF doc.source = Absent("source") THEN <<"Unknown Source", "">> ELSE doc.source
        page == IF doc.page_number # Absent("page_number") THEN doc.page_number
                ELSE IF doc.page # Absent("page") THEN doc.page
                ELSE "Unknown"
    IN IF page = "Unknown" THEN <<file>> ELSE <<file, " (Page: ", page, ")">>

\* C13: in every successful query result 'sources' holds no label twice and
\* holds exactly the labels of the retrieved chunks, 'retrieved_docs' is the
\* whole list the search returned and 'num_sources' is its length; while
\* the loop runs, the labels collected are those of the chunks visited.
C13_SourcesDeduplicated ==
    /\ qp_call.pc = "loop" =>
          /\ NoDuplicates(qp_call.unique_sources)
          /\ Range(qp_call.unique_sources) =
                {SourceLabel(qp_call.retrieved_docs[j]) : j \in 1..(qp_call.i - 1)}
    /\ (qp_call.pc = "returned" /\ qp_call.ret.success) =>
          LET r == qp_call.ret
          IN /\ NoDuplicates(r.sources)
             /\ Range(r.sources) = {SourceLabel(d) : d \in Range(r.retrieved_docs)}
             /\ r.retrieved_docs = qp_call.retrieved_docs
             /\ r.num_sources = Len(r.retrieved_docs)
             /\ Len(r.context) = Len(r.retrieved_docs)

\* C13 witness: a successful result for three retrieved chunks, two of
\* which carry the same label.
C13_Witness ==
    /\ qp_call.pc = "returned"
    /\ qp_call.ret.success
    /\ qp_call.ret.num_sources = 3
    /\ Len(qp_call.ret.sources) = 2

\* C14: the stored query result is discarded when a new query starts: while
\* a query is in flight (accepted by process_query, its result not yet
\* displayed) no earlier result is held, so export_results has nothing to
\* write.
C14_ResultDiscardedOnNewQuery ==
    QueriesInFlight > 0 => last_query_result = NoResult

\* The step is an export_results that wrote the report.
ExportWritten ==
    /\ messagebox = <<>>
    /\ messagebox' = <<"Success", "Results exported">>

\* C15: once no query is in flight, export_results writes the answer and
\* the passages of the query submitted last, both taken from the one result
\* held; while no query has completed, no report file is written.
C15_ExportsLatestQuery ==
    [][/\ (ExportWritten /\ QueriesInFlight = 0) =>
             /\ export_file'.written
             /\ export_file'.answer = last_query_result.answer
             /\ last_query_result.success =>
                   /\ export_file'.answer = <<"response to", last_submitted>>
                   /\ export_file'.docs = last_query_result.retrieved_docs
       /\ last_query_result' = NoResult => export_file' = NoExport]_vars

\* C16: a failed query surfaces the generic string and not the exception
\* text: the result of a failed process_query has success = false and the
\* generic answer, and after display_results has shown a failed result the
\* Answer box holds the generic string.
C16_GenericErrorShown ==
    /\ \A k \in 1..Len(after_queue) :
          (after_queue[k].kind = "display" /\ ~after_queue[k].result.success) =>
              after_queue[k].result.answer = GenericAnswer
    /\ (last_query_result # NoResult /\ ~last_query_result.success
          /\ results_text # <<"Processing your question...">>) =>
              results_text = GenericAnswer

\* The step is the first set_api_key of a session, and both initialisers
\* returned True.
FirstKeyAccepted ==
    /\ api_key = 0
    /\ api_key' # 0
    /\ api_status_var' = <<"API: Connected">>

C18_SplitterMatchesConfig ==
    text_splitter = TextSplitter(chunk_size, chunk_overlap)

\* C19: every query worker delivers exactly one result to display_results:
\* a query_thread that ends has scheduled one display_results callback,
\* whether the query succeeded or failed; the callback that is run stores
\* its result and enables the Ask button; and, the threads and the event
\* loop being scheduled fairly, a started query never leaves the Ask button
\* disabled forever.
C19_QueryDelivered ==
    /\ [][Len(query_workers') < Len(query_workers) =>
             /\ Len(query_workers') = Len(query_workers) - 1
             /\ Len(after_queue') = Len(after_queue) + 1
             /\ after_queue'[Len(after_queue')].kind = "display"
             /\ QueriesInFlight' = QueriesInFlight]_vars
    /\ [][QueriesInFlight' < QueriesInFlight =>
             /\ QueriesInFlight' = QueriesInFlight - 1
             /\ Head(after_queue).kind = "display"
             /\ last_query_result' = Head(after_queue).result
             /\ ask_btn' = "normal"]_vars
    /\ (QueriesInFlight > 0 /\ ask_btn = "disabled") ~> (ask_btn = "normal")

\* C19 witness: the result of a failed query has been displayed and the Ask
\* button is enabled again, with no query left in flight.
C19_Witness ==
    /\ last_query_result = QPFailure
    /\ results_text = ResultsText(QPFailure)
    /\ QueriesInFlight = 0
    /\ ask_btn = "normal"

\* The step runs the oldest scheduled callback, an on_processing_complete
\* with the given `success` (and is not the end of the session).
CompleteRun(success) ==
    /\ after_queue # <<>>
    /\ Head(after_queue).kind = "complete"
    /\ Head(after_queue).success = success
    /\ after_queue' = Tail(after_queue)
    /\ api_key' # 0

\* C20: a create_vector_database that fails returns False without raising
\* and leaves processor.vector_db as it was (a loaded store stays, None
\* stays None); on_processing_complete then shows 'Failed to create vector
\* database', ends the busy state and leaves the query interface and the
\* store as they were.
C20_FailedCreateKeepsStore ==
    [][/\ CreateStep(FALSE) =>
             /\ vector_db' = vector_db
             /\ Len(ingest_workers') = Len(ingest_workers) - 1
             /\ persist_dir'.count = persist_dir.count
       /\ CompleteRun(FALSE) =>
             /\ messagebox' = <<"Error", "Failed to create vector database.">>
             /\ status_var' = <<"Error - Database creation failed">>
             /\ ask_btn' = ask_btn
             /\ query_text_state' = query_text_state
             /\ vector_db' = vector_db
             /\ db_status_var' = db_status_var
             /\ ~is_processing']_vars

\* C20 witness: with a store loaded, a failed creation has been reported:
\* the error box is open, the loaded store is still held and the persist
\* directory still has its chunks.
C20_Witness ==
    /\ messagebox = <<"Error", "Failed to create vector database.">>
    /\ vector_db = "db"
    /\ persist_dir.count > 0
    /\ ~is_processing
    /\ process_btn = "normal"

\* A directory with .pdf files none of which yields a chunk: each fails to
\* load, or loads with no chunk.
YieldsNoChunk(dir) ==
    /\ dir.exists
    /\ PdfPositions(dir.listing) # <<>>
    /\ \A k \in 1..Len(dir.listing) :
          EndsWithPdf(dir.listing[k]) =>
              (~dir.contents[k].ok \/ dir.contents[k].chunks = <<>>)

\* The step runs the oldest scheduled callback, the on_processing_error of
\* the empty-list branch (and is not the end of the session).
NoDocumentsRun ==
    /\ after_queue # <<>>
    /\ Head(after_queue).kind = "error"
    /\ after_queue' = Tail(after_queue)
    /\ api_key' # 0

\* C21: when no .pdf file of the directory yields a chunk the loader returns
\* the empty list; process_thread then schedules on_processing_error('No
\* documents were processed') and ends without calling
\* create_vector_database, so the store is left as it was; the callback
\* shows that message. create_vector_database is called only with a
\* non-empty list.
C21_EmptyIngestionReported ==
    /\ [](\A dir \in IngestDirs :
            YieldsNoChunk(dir) =>
                /\ LoadAndProcessPdfs(dir).pc = "returned"
                /\ LoadAndProcessPdfs(dir).documents = <<>>)
    /\ [][/\ \A k \in 1..Len(ingest_workers') :
               ingest_workers'[k].pc = "create" => ingest_workers'[k].documents # <<>>
          /\ (Len(after_queue') = Len(after_queue) + 1
                 /\ after_queue'[Len(after_queue')].kind = "error") =>
                /\ after_queue'[Len(after_queue')].msg = "No documents were processed"
                /\ Len(ingest_workers') = Len(ingest_workers) - 1
                /\ \A k \in 1..Len(ingest_workers) : ingest_workers[k].pc # "create"
                /\ vector_db' = vector_db
                /\ persist_dir' = persist_dir
          /\ (CreateStep(TRUE) \/ CreateStep(FALSE)) =>
                after_queue'[Len(after_queue')].doc_count >= 1
          /\ NoDocumentsRun =>
                /\ messagebox' = <<"Processing Error", "Failed to process PDFs:",
                                   "No documents were processed">>
                /\ ~is_processing'
                /\ process_btn' = "normal"
                /\ vector_db' = vector_db
                /\ persist_dir' = persist_dir]_vars

\* C21 witness: with a store loaded, an ingestion that found no chunk has
\* been reported and the store is still held.
C21_Witness ==
    /\ messagebox = <<"Processing Error", "Failed to process PDFs:",
                      "No documents were processed">>
    /\ vector_db = "db"
    /\ persist_dir.count > 0
    /\ ~is_processing
    /\ ingest_workers = <<>>

\* The message boxes of the two checks of process_pdfs.
NoKeyBox == <<"Error", "Please configure your Google API key first.">>

NoDirBox == <<"Error", "Please select a PDF directory.">>

\* C22: process_pdfs starts an ingestion worker only when an API key is
\* configured and the PDF directory field, stripped, is not empty; a step
\* that shows the error of a failed check starts no worker and leaves
\* is_processing false and the Process button enabled.
C22_IngestionPreconditions ==
    [][/\ Len(ingest_workers') > Len(ingest_workers) =>
             /\ api_key # 0
             /\ Strip(pdf_dir_var) # ""
             /\ ingest_workers'[Len(ingest_workers')].pdf_directory = Strip(pdf_dir_var)
             /\ ~is_processing
             /\ is_processing'
             /\ messagebox' = <<>>
       /\ (messagebox = <<>> /\ messagebox' \in {NoKeyBox, NoDirBox}) =>
             /\ ingest_workers' = ingest_workers
             /\ ~is_processing'
             /\ process_btn' = "normal"
             /\ messagebox' = NoKeyBox => api_key = 0
             /\ messagebox' = NoDirBox => (api_key # 0 /\ Strip(pdf_dir_var) = "")]_vars

\* C22 witness: with a key configured and only blanks in the directory
\* field, Process PDFs has shown the directory error; nothing is running.
C22_Witness ==
    /\ messagebox = NoDirBox
    /\ api_key # 0
    /\ pdf_dir_var = " "
    /\ ~is_processing
    /\ process_btn = "normal"
    /\ ingest_workers = <<>>

\* The step is a set_api_key: the only handler of SpecKey that starts with
\* no message box open and does not end with one of reset_database.
SetKeyStep ==
    /\ messagebox = <<>>
    /\ messagebox' \notin {<<"Success", "Database reset successfully.">>,
                            <<"Error", "Failed to reset database">>}

\* C23: after every set_api_key the API status is 'API: Connected' iff
\* initialize_embeddings and initialize_llm both returned True for the key
\* just supplied, and 'API: Error' otherwise; the existing store is loaded
\* only in the Connected case.
C23_StatusReflectsInitialisers ==
    [][SetKeyStep =>
          /\ emb_call'.pc = "returned"
          /\ llm_call'.pc = "returned"
          /\ emb_call'.key = api_key'
          /\ llm_call'.key = api_key'
          /\ api_status_var' = (IF emb_call'.ret /\ llm_call'.ret
                                THEN <<"API: Connected">> ELSE <<"API: Error">>)
          /\ ~(emb_call'.ret /\ llm_call'.ret) =>
                /\ vector_db' = vector_db
                /\ db_status_var' = db_status_var
                /\ ask_btn' = ask_btn
                /\ query_text_state' = query_text_state
                /\ status_var' = <<"Error - Failed to configure API">>
          /\ vector_db' # vector_db => api_status_var' = <<"API: Connected">>]_vars

\* C23 witness: the embeddings were initialised and every generation model
\* failed; the status is 'API: Error' and the store in the persist
\* directory has not been loaded.
C23_Witness ==
    /\ emb_call.pc = "returned"
    /\ llm_call.pc = "returned"
    /\ emb_call.ret
    /\ ~llm_call.ret
    /\ api_status_var = <<"API: Error">>
    /\ persist_dir.state = "db"
    /\ vector_db = "None"

\* C24: between event handlers the Process button is disabled exactly when
\* is_processing is true.
C24_ButtonFollowsFlag ==
    (process_btn = "disabled") <=> is_processing

\* C24 witness: the error callback of an ingestion failed with NameError;
\* flag and button were both left as process_pdfs set them.
C24_Witness ==
    /\ stderr = "NameError"
    /\ is_processing
    /\ process_btn = "disabled"
    /\ ingest_workers = <<>>
    /\ after_queue = <<>>

\* C25: process_query starts a query worker only when the vector store and
\* the LLM are both initialised, so no query reaches the similarity search
\* while query_processor.llm is None.
C25_QueryNeedsStoreAndLLM ==
    [][Len(query_workers') > Len(query_workers) =>
          (vector_db # "None" /\ llm # NoLLM)]_vars

\* The step is a query_thread handing over a successful result.
QueryAnswered ==
    /\ Len(after_queue') = Len(after_queue) + 1
    /\ after_queue'[Len(after_queue')].kind = "display"
    /\ after_queue'[Len(after_queue')].result.success

\* C26: the LLM that answers a query and the embeddings client that an
\* ingestion uses were initialised with the api_key stored now; after a
\* set_api_key whose initialisation failed, no query is answered by an LLM
\* created with an earlier key.
C26_ClientsUseCurrentKey ==
    [][/\ QueryAnswered => llm.key = api_key
       /\ (CreateStep(TRUE) \/ CreateStep(FALSE)) => embeddings.key = api_key]_vars

\* C27: after a confirmed reset_database the store stays uninitialised until
\* an ingestion started after the reset has succeeded. While the message
\* box of the reset is still open no handler has run, so no ingestion has
\* been started since: the store is None, the indicator reads 'Database:
\* Not Ready' and the persist directory is gone.
C27_ResetHolds ==
    messagebox = <<"Success", "Database reset successfully.">> =>
        /\ vector_db = "None"
        /\ db_status_var = <<"Database: Not Ready", 0>>
        /\ persist_dir.state = "absent"

\* C28: all chunks of one ingestion run are split with the chunk size and
\* overlap in force when the run started: every file of the run is split
\* with the text splitter the processor held at the start.
C28_OneSplitterPerRun ==
    pdf_call.pc \in {"loop", "returned"} =>
        \A j \in 1..Len(pdf_call.split_with) :
            pdf_call.split_with[j] = pdf_call.started_with

\* C29: the query text export_results writes is the question that produced
\* the exported answer: the 'Query:' line of a report with a successful
\* result is the string that was passed to the query worker of that result.
C29_ExportedQueryMatchesAnswer ==
    [][(ExportWritten /\ last_query_result.success) =>
          export_file'.answer = <<"response to", export_file'.query>>]_vars


\* ScientificRAGApp.show_source_content for a tree item: the passage whose
\* source and page head the content pane, <<>> when the pane is left as it is.
ShowSourceContent(item) ==
    LET retrieved_docs == IF "retrieved_docs" \in DOMAIN last_query_result
                          THEN last_query_result.retrieved_docs ELSE <<>>
        doc_index == item.tags
    IN IF doc_index < Len(retrieved_docs)
       THEN <<SourceFile(retrieved_docs[doc_index + 1]), PageNum(retrieved_docs[doc_index + 1])>>
       ELSE <<>>

\* C30: the passages listed in the sources tree are those of the stored last
\* query result, whose answer the Answer box shows: every listed entry opens
\* the passage of that result it names, and once a failed query has been
\* displayed no passage is listed.
C30_SourcesBelongToShownResult ==
    sources_tree # <<>> =>
        /\ last_query_result.success
        /\ results_text = ResultsText(last_query_result)
        /\ \A j \in 1..Len(sources_tree) :
              ShowSourceContent(sources_tree[j]) = sources_tree[j].values

====
